---- MODULE Spec2Model ----
(***************************************************************************)
(* Health-Image-Classifier: the classification endpoint                    *)
(* (src/server/routes/classify.ts) and the upload client                   *)
(* (src/client/pages/Index.tsx).                                           *)
(*                                                                         *)
(* ServerSpec steps one request through the upload middleware and the      *)
(* handler.  Spec is the client: React state, pending FileReader loads and *)
(* in-flight analyzeImage calls, with user events enabled exactly where    *)
(* the JSX renders the control.  LiveSpec is Spec with the fairness that   *)
(* "the fetch eventually settles" states.                                  *)
(*                                                                         *)
(* Representation: a MIME type is a sequence of characters, so that        *)
(* startsWith is computed; confidence is in hundredths (0.87 is 87); an    *)
(* absent value (null / undefined) is the record Null.                     *)
(***************************************************************************)
EXTENDS Integers, Sequences, FiniteSets, TLC

VARIABLES
    \* ---- server: one request through uploadMiddleware, handleClassification
    req,            \* the incoming request: [file |-> a file part or Null]
    spc,            \* position: idle, upload, handler, delay, error, done
    reqFile,        \* req.file as multer leaves it
    uploadErr,      \* the error multer passed to next(err), or "none"
    handlerRan,     \* the body of handleClassification has started
    timer,          \* the pending setTimeout: [due |-> ms] or Null
    picked,         \* the index Math.floor(Math.random() * 4) chose, or -1
    sent,           \* the responses written to res, in order
    reqStart,       \* the clock when the request arrived
    clock,          \* wall clock of the server, in ticks of TickMs
    \* ---- client: the state of the Index component
    selectedImage,  \* useState<File | null>
    imagePreview,   \* useState<string | null>: a data URL
    isAnalyzing,    \* useState(false)
    prediction,     \* useState<PredictionResult | null>
    readers,        \* pending FileReader loads: file -> how many
    fetches,        \* analyzeImage calls suspended at an await
    predictionFor   \* ghost: the file whose request produced prediction

varsServer == <<req, spc, reqFile, uploadErr, handlerRan, timer, picked, sent,
                reqStart, clock>>
varsClient == <<selectedImage, imagePreview, isAnalyzing, prediction, readers,
                fetches, predictionFor>>
vars == <<req, spc, reqFile, uploadErr, handlerRan, timer, picked, sent,
          reqStart, clock, selectedImage, imagePreview, isAnalyzing,
          prediction, readers, fetches, predictionFor>>

Null == [null |-> TRUE]

\* ------------------------------------------------------------------ bounds
\* Math.random() is drawn from {k / RandomSteps : k \in 0 .. RandomSteps - 1}
RandomSteps == 8
\* the server clock runs from 0 to MaxTicks ticks
MaxTicks == 4
\* FileReader loads pending at once
MaxReaders == 2
\* analyzeImage calls in flight at once (the model's cap, not the program's)
MaxFetches == 2

\* ------------------------------------------------------------ MIME, files
ImagePrefix == <<"i", "m", "a", "g", "e", "/">>
MimePng == <<"i", "m", "a", "g", "e", "/", "p", "n", "g">>
MimeJpeg == <<"i", "m", "a", "g", "e", "/", "j", "p", "e", "g">>
MimeBarePrefix == <<"i", "m", "a", "g", "e", "/">>
MimeNoSlash == <<"i", "m", "a", "g", "e">>
MimeUpper == <<"I", "m", "a", "g", "e", "/", "p", "n", "g">>
MimeInner == <<"x", "-", "i", "m", "a", "g", "e", "/", "p", "n", "g">>
MimePdf == <<"a", "p", "p", "l", "i", "c", "a", "t", "i", "o", "n", "/", "p", "d", "f">>
MimeEmpty == << >>

StartsWith(s, p) ==
    /\ Len(s) >= Len(p)
    /\ SubSeq(s, 1, Len(p)) = p

FileSizeLimit == 10 * 1024 * 1024

\* the limit taken as exclusive
FileSizeWithinExclusive(size) == size < FileSizeLimit
\* limits: { fileSize }: a file is cut off once it exceeds fileSize bytes
FileSizeWithin(size) == size <= FileSizeLimit

\* includes("image") in place of startsWith("image/")
FileFilterIncludes(file) ==
    \E i \in 1 .. Len(file.type) :
        /\ i + 4 <= Len(file.type)
        /\ SubSeq(file.type, i, i + 4) = <<"i", "m", "a", "g", "e">>
\* fileFilter: cb(null, true) or cb(new Error(...), false)
FileFilter(file) == StartsWith(file.type, ImagePrefix)

OnlyImagesMsg == "Only image files are allowed"
FileTooLargeMsg == "File too large"

Mimes == {MimePng, MimeJpeg, MimeBarePrefix, MimeNoSlash, MimeUpper,
          MimeInner, MimePdf, MimeEmpty}
Sizes == {0, FileSizeLimit - 1, FileSizeLimit, FileSizeLimit + 1,
          2 * FileSizeLimit}
ServerFiles == [name : {"upload"}, type : Mimes, size : Sizes]
Requests == {[file |-> Null]} \cup {[file |-> f] : f \in ServerFiles}

\* ------------------------------------------------------------- the clock
DelayMs == 2000
TickMs == DelayMs \div 2
NowMs == clock * TickMs
ToISOString(ms) == [epochMs |-> ms, zone |-> "Z"]

\* ------------------------------------------------------------ the catalog
mockPredictions == <<
    [condition |-> "Melanoma", confidence |-> 87, severity |-> "high",
     description |-> "Detected suspicious pigmented lesion. Recommend immediate dermatological consultation for further evaluation."],
    [condition |-> "Benign Nevus", confidence |-> 92, severity |-> "low",
     description |-> "Appears to be a benign mole. Continue regular skin monitoring and annual dermatological check-ups."],
    [condition |-> "Seborrheic Keratosis", confidence |-> 78, severity |-> "low",
     description |-> "Common benign skin growth. No immediate treatment required unless cosmetically bothersome."],
    [condition |-> "Basal Cell Carcinoma", confidence |-> 83, severity |-> "medium",
     description |-> "Possible skin cancer detected. Recommend dermatological evaluation for confirmation and treatment planning."] >>

\* Math.random(): k stands for k / RandomSteps, in [0, 1)
MathRandom == 0 .. RandomSteps - 1

\* Math.ceil in place of Math.floor
RandomIndexCeil(k) == (k * Len(mockPredictions) + RandomSteps - 1) \div RandomSteps
\* Math.floor(Math.random() * mockPredictions.length)
RandomIndex(k) == (k * Len(mockPredictions)) \div RandomSteps

\* arr[i] of a JavaScript array: undefined outside 0 .. length - 1
ArrayGet(arr, i) == IF i \in 0 .. Len(arr) - 1 THEN arr[i + 1] ELSE Null

\* { ...randomPrediction, timestamp }: spreading undefined adds nothing
ClassificationResponse(entry, ms) ==
    IF entry = Null
    THEN [timestamp |-> ToISOString(ms)]
    ELSE [condition |-> entry.condition, confidence |-> entry.confidence,
          severity |-> entry.severity, description |-> entry.description,
          timestamp |-> ToISOString(ms)]

\* ------------------------------------------------------------- responses
\* res.json(body) answers 200 unless res.status(n) came first
JsonResponse(status, body) == [status |-> status, json |-> TRUE, body |-> body]

NoFileResponse == JsonResponse(400, [error |-> "No image file provided"])
ServerFailureResponse(details) ==
    JsonResponse(500, [error |-> "Failed to process image classification",
                       details |-> details])
SuccessResponse(k, ms) ==
    JsonResponse(200, ClassificationResponse(
                          ArrayGet(mockPredictions, RandomIndex(k)), ms))
\* an error given to next(err) is answered by the framework's error handler
UploadErrorResponse(msg) == [status |-> 500, json |-> FALSE, body |-> [text |-> msg]]

\* upload.single("image") on one file part: the error it ends with, or "none"
UploadOutcome(file) ==
    IF ~FileFilter(file) THEN OnlyImagesMsg
    ELSE IF ~FileSizeWithin(file.size) THEN FileTooLargeMsg
    ELSE "none"

\* ================================================================ server
InitServer ==
    /\ req = [file |-> Null]
    /\ spc = "idle"
    /\ reqFile = Null
    /\ uploadErr = "none"
    /\ handlerRan = FALSE
    /\ timer = Null
    /\ picked = -1
    /\ sent = << >>
    /\ reqStart = 0
    /\ clock = 0

\* a request arrives at POST /api/classify
Receive(r) ==
    /\ spc = "idle"
    /\ NowMs + DelayMs <= MaxTicks * TickMs
    /\ req' = r
    /\ spc' = "upload"
    /\ reqFile' = Null
    /\ uploadErr' = "none"
    /\ handlerRan' = FALSE
    /\ timer' = Null
    /\ picked' = -1
    /\ sent' = << >>
    /\ reqStart' = NowMs
    /\ UNCHANGED <<clock>>
    /\ UNCHANGED varsClient

\* uploadMiddleware: next() with req.file set or absent, or next(err)
UploadMiddleware ==
    /\ spc = "upload"
    /\ IF req.file = Null
       THEN /\ reqFile' = Null
            /\ uploadErr' = "none"
            /\ spc' = "handler"
       ELSE IF UploadOutcome(req.file) = "none"
       THEN /\ reqFile' = req.file
            /\ uploadErr' = "none"
            /\ spc' = "handler"
       ELSE /\ reqFile' = Null
            /\ uploadErr' = UploadOutcome(req.file)
            /\ spc' = "error"
    /\ UNCHANGED <<req, handlerRan, timer, picked, sent, reqStart, clock>>
    /\ UNCHANGED varsClient

\* next(err) skips the handler: the error handler answers
ErrorHandler ==
    /\ spc = "error"
    /\ sent' = Append(sent, UploadErrorResponse(uploadErr))
    /\ spc' = "done"
    /\ UNCHANGED <<req, reqFile, uploadErr, handlerRan, timer, picked,
                   reqStart, clock>>
    /\ UNCHANGED varsClient

\* the 400 sent without return: execution falls through to the delay
HandleClassificationNoReturn ==
    /\ spc = "handler"
    /\ handlerRan' = TRUE
    /\ sent' = IF reqFile = Null THEN Append(sent, NoFileResponse) ELSE sent
    /\ timer' = [due |-> NowMs + DelayMs]
    /\ spc' = "delay"
    /\ UNCHANGED <<req, reqFile, uploadErr, picked, reqStart, clock>>
    /\ UNCHANGED varsClient
\* handleClassification up to its await: the 400, or the 2000 ms timer
HandleClassification ==
    /\ spc = "handler"
    /\ handlerRan' = TRUE
    /\ IF reqFile = Null
       THEN /\ sent' = Append(sent, NoFileResponse)
            /\ spc' = "done"
            /\ UNCHANGED timer
       ELSE /\ timer' = [due |-> NowMs + DelayMs]
            /\ spc' = "delay"
            /\ UNCHANGED sent
    /\ UNCHANGED <<req, reqFile, uploadErr, picked, reqStart, clock>>
    /\ UNCHANGED varsClient

\* the timer fires: the handler picks an entry and answers
TimerFires(k) ==
    /\ spc = "delay"
    /\ timer # Null
    /\ NowMs >= timer.due
    /\ picked' = RandomIndex(k)
    /\ sent' = Append(sent, SuccessResponse(k, NowMs))
    /\ timer' = Null
    /\ spc' = "done"
    /\ UNCHANGED <<req, reqFile, uploadErr, handlerRan, reqStart, clock>>
    /\ UNCHANGED varsClient

\* the exchange is over; the server is stateless across requests
Close ==
    /\ spc = "done"
    /\ spc' = "idle"
    /\ UNCHANGED <<req, reqFile, uploadErr, handlerRan, timer, picked, sent,
                   reqStart, clock>>
    /\ UNCHANGED varsClient

Tick ==
    /\ clock < MaxTicks
    /\ clock' = clock + 1
    /\ UNCHANGED <<req, spc, reqFile, uploadErr, handlerRan, timer, picked,
                   sent, reqStart>>
    /\ UNCHANGED varsClient

NextServer ==
    \/ \E r \in Requests : Receive(r)
    \/ UploadMiddleware
    \/ ErrorHandler
    \/ HandleClassification
    \/ \E k \in MathRandom : TimerFires(k)
    \/ Close
    \/ Tick

\* ================================================================ client
\* the files the user can pick or drop
FileA == [name |-> "a.png", type |-> MimePng, size |-> 2 * 1024 * 1024]
FileB == [name |-> "b.jpg", type |-> MimeJpeg, size |-> FileSizeLimit + 1]
FileC == [name |-> "c.pdf", type |-> MimePdf, size |-> 1024]
ClientFiles == {FileA, FileB, FileC}

\* reader.readAsDataURL(file): e.target.result
DataURL(file) == [scheme |-> "data", mediatype |-> file.type, payload |-> file.name]

\* the result synthesized in the catch block
FallbackPrediction ==
    [condition |-> "Analysis Error", confidence |-> 0, severity |-> "medium",
     description |-> "Unable to analyze image. Please try again or contact support if the problem persists."]

\* fetch rejects
NetworkError == [networkError |-> TRUE]

\* what the endpoint answers to a request carrying this file
PipelineResponses(file) ==
    IF UploadOutcome(file) # "none"
    THEN {UploadErrorResponse(UploadOutcome(file))}
    ELSE {SuccessResponse(k, t * TickMs) :
              k \in MathRandom, t \in (DelayMs \div TickMs) .. MaxTicks}

\* how a fetch of /api/classify can settle: a rejection, the endpoint's answer
\* to the file, or one of the handler's error answers
FetchOutcomes(file) ==
    {NetworkError} \cup PipelineResponses(file)
        \cup {NoFileResponse, ServerFailureResponse("Unknown error")}

\* the status check left out
ResponseOkAlways(r) == TRUE
\* response.ok
ResponseOk(r) == r.status >= 200 /\ r.status <= 299

\* the button without disabled={isAnalyzing}
AnalyzeButtonNeverDisabled == imagePreview # Null
\* the Analyze button is rendered with the preview, disabled={isAnalyzing}
AnalyzeButtonEnabled == imagePreview # Null /\ ~isAnalyzing

\* setIsAnalyzing(false) missing
FinallyIsAnalyzingMissing == isAnalyzing
\* finally { setIsAnalyzing(false) }
FinallyIsAnalyzing == FALSE

RECURSIVE SumReaders(_)
SumReaders(S) ==
    IF S = {} THEN 0
    ELSE LET f == CHOOSE x \in S : TRUE
         IN  readers[f] + SumReaders(S \ {f})
PendingReaders == SumReaders(ClientFiles)

RemoveAt(q, i) == SubSeq(q, 1, i - 1) \o SubSeq(q, i + 1, Len(q))

InitClient ==
    /\ selectedImage = Null
    /\ imagePreview = Null
    /\ isAnalyzing = FALSE
    /\ prediction = Null
    /\ readers = [f \in ClientFiles |-> 0]
    /\ fetches = << >>
    /\ predictionFor = Null

Init == InitServer /\ InitClient

\* handleImageSelect(file)
HandleImageSelect(file) ==
    /\ PendingReaders < MaxReaders
    /\ selectedImage' = file
    /\ prediction' = Null
    /\ predictionFor' = Null
    /\ readers' = [readers EXCEPT ![file] = @ + 1]
    /\ UNCHANGED <<imagePreview, isAnalyzing, fetches>>

\* handleFileChange: the file input, rendered while there is no preview
HandleFileChange(file) ==
    /\ imagePreview = Null
    /\ IF file # Null THEN HandleImageSelect(file) ELSE UNCHANGED varsClient
    /\ UNCHANGED varsServer

\* handleDrop: the drop zone, rendered while there is no preview
HandleDrop(file) ==
    /\ imagePreview = Null
    /\ IF file # Null /\ StartsWith(file.type, ImagePrefix)
       THEN HandleImageSelect(file)
       ELSE UNCHANGED varsClient
    /\ UNCHANGED varsServer

\* reader.onload
ReaderOnload(file) ==
    /\ readers[file] > 0
    /\ imagePreview' = DataURL(file)
    /\ readers' = [readers EXCEPT ![file] = @ - 1]
    /\ UNCHANGED <<selectedImage, isAnalyzing, prediction, fetches, predictionFor>>
    /\ UNCHANGED varsServer

\* the read fails: no onerror handler is set
ReaderError(file) ==
    /\ readers[file] > 0
    /\ readers' = [readers EXCEPT ![file] = @ - 1]
    /\ UNCHANGED <<selectedImage, imagePreview, isAnalyzing, prediction, fetches,
                   predictionFor>>
    /\ UNCHANGED varsServer

\* analyzeImage up to await fetch(...)
AnalyzeImage ==
    /\ AnalyzeButtonEnabled
    /\ Len(fetches) < MaxFetches
    /\ IF selectedImage = Null
       THEN UNCHANGED <<isAnalyzing, fetches>>
       ELSE /\ isAnalyzing' = TRUE
            /\ fetches' = Append(fetches, [file |-> selectedImage, at |-> "fetch",
                                           response |-> Null])
    /\ UNCHANGED <<selectedImage, imagePreview, prediction, readers, predictionFor>>
    /\ UNCHANGED varsServer

\* setPrediction(result), then the finally block; the call is over
Finish(i, result) ==
    /\ prediction' = result
    /\ predictionFor' = fetches[i].file
    /\ isAnalyzing' = FinallyIsAnalyzing
    /\ fetches' = RemoveAt(fetches, i)
    /\ UNCHANGED <<selectedImage, imagePreview, readers>>

\* await fetch settles: a rejection or a status that is not ok goes to catch
FetchSettles(i, o) ==
    /\ i \in 1 .. Len(fetches)
    /\ fetches[i].at = "fetch"
    /\ o \in FetchOutcomes(fetches[i].file)
    /\ IF o = NetworkError
       THEN Finish(i, FallbackPrediction)
       ELSE IF ~ResponseOk(o)
       THEN Finish(i, FallbackPrediction)
       ELSE /\ fetches' = [fetches EXCEPT ![i].at = "json", ![i].response = o]
            /\ UNCHANGED <<selectedImage, imagePreview, isAnalyzing, prediction,
                           readers, predictionFor>>
    /\ UNCHANGED varsServer

\* await response.json() settles: the parsed body, or a rejection to catch
JsonSettles(i, parsed) ==
    /\ i \in 1 .. Len(fetches)
    /\ fetches[i].at = "json"
    /\ IF parsed /\ fetches[i].response.json
       THEN Finish(i, fetches[i].response.body)
       ELSE Finish(i, FallbackPrediction)
    /\ UNCHANGED varsServer

\* clearImage: both Clear buttons are rendered with the preview
ClearImage ==
    /\ imagePreview # Null
    /\ selectedImage' = Null
    /\ imagePreview' = Null
    /\ prediction' = Null
    /\ predictionFor' = Null
    /\ UNCHANGED <<isAnalyzing, readers, fetches>>
    /\ UNCHANGED varsServer

AnyFetchSettles ==
    \E i \in 1 .. Len(fetches) :
        \E o \in FetchOutcomes(fetches[i].file) : FetchSettles(i, o)
AnyJsonSettles ==
    \E i \in 1 .. Len(fetches) : \E parsed \in BOOLEAN : JsonSettles(i, parsed)

Next ==
    \/ \E file \in ClientFiles \cup {Null} : HandleFileChange(file)
    \/ \E file \in ClientFiles \cup {Null} : HandleDrop(file)
    \/ \E file \in ClientFiles : ReaderOnload(file)
    \/ \E file \in ClientFiles : ReaderError(file)
    \/ AnalyzeImage
    \/ AnyFetchSettles
    \/ AnyJsonSettles
    \/ ClearImage

Spec == Init /\ [][Next]_vars
ServerSpec == Init /\ [][NextServer]_vars
LiveSpec == Spec /\ WF_vars(AnyFetchSettles) /\ WF_vars(AnyJsonSettles)

\* ================================================================ claims
TenMiB == 10 * 1024 * 1024
IsImageType(t) == Len(t) >= 6 /\ SubSeq(t, 1, 6) = <<"i", "m", "a", "g", "e", "/">>
AcceptedImage(f) == f # Null /\ IsImageType(f.type) /\ f.size <= TenMiB
CatalogNames ==
    {"Melanoma", "Benign Nevus", "Seborrheic Keratosis", "Basal Cell Carcinoma"}
ResultFields == {"condition", "confidence", "severity", "description"}

\* C1: a request carrying an accepted image file (type starting "image/",
\* size <= 10 MiB) is answered once, with status 200 and a body whose
\* condition, confidence, severity and description are together one of the
\* four catalog entries, confidence in [0,1] (0..100 hundredths) and severity
\* in {low, medium, high}, whichever value Math.random() returned.
C1_AcceptedImageGetsCatalogEntry ==
    (spc = "done" /\ AcceptedImage(req.file)) =>
        /\ Len(sent) = 1
        /\ sent[1].status = 200
        /\ sent[1].json
        /\ ResultFields \subseteq DOMAIN sent[1].body
        /\ sent[1].body.condition \in CatalogNames
        /\ \E n \in 1 .. 4 :
               \A fld \in ResultFields : sent[1].body[fld] = mockPredictions[n][fld]
        /\ sent[1].body.confidence >= 0
        /\ sent[1].body.confidence <= 100
        /\ sent[1].body.severity \in {"low", "medium", "high"}

C1_Witness ==
    /\ spc = "done"
    /\ AcceptedImage(req.file)
    /\ req.file.size = TenMiB
    /\ Len(sent) = 1
    /\ sent[1].status = 200
    /\ sent[1].body.condition = "Basal Cell Carcinoma"

\* C2: a request that reaches handleClassification without a file is
\* answered with status 400 and {error: "No image file provided"} and nothing
\* more: no timer is started, no entry is picked, no second response is sent.
C2_NoFileIs400AndStops ==
    (req.file = Null) =>
        /\ timer = Null
        /\ picked = -1
        /\ spc # "delay"
        /\ Len(sent) <= 1
        /\ handlerRan =>
              sent = << [status |-> 400, json |-> TRUE,
                         body |-> [error |-> "No image file provided"]] >>

C2_Witness ==
    /\ req.file = Null
    /\ handlerRan
    /\ spc = "done"
    /\ Len(sent) = 1
    /\ sent[1].status = 400

\* C3: a file whose MIME type does not start with "image/" is rejected by the
\* upload middleware with "Only image files are allowed" before the body of
\* handleClassification runs, and no 200 response is ever sent for it.
C3_NonImageRejectedBeforeHandler ==
    (req.file # Null /\ ~IsImageType(req.file.type)) =>
        /\ ~handlerRan
        /\ spc \notin {"handler", "delay"}
        /\ \A n \in 1 .. Len(sent) : sent[n].status # 200
        /\ (spc # "upload") => uploadErr = "Only image files are allowed"

C3_Witness ==
    /\ req.file # Null
    /\ req.file.type = MimeInner
    /\ req.file.size = 0
    /\ spc = "done"
    /\ uploadErr = "Only image files are allowed"
    /\ Len(sent) = 1

FailedOutcome(o) ==
    IF o = NetworkError THEN TRUE ELSE o.status < 200 \/ o.status > 299

\* C5: when an analysis request fails, by fetch rejecting or by a status that
\* is not 2xx, the prediction analyzeImage stores at that step is exactly the
\* fallback (Analysis Error, confidence 0, severity medium); a server error
\* body is never the prediction.
C5_FailureStoresFallback ==
    /\ [][\A i \in 1 .. Len(fetches) :
            \A o \in FetchOutcomes(fetches[i].file) :
                (FailedOutcome(o) /\ FetchSettles(i, o)) =>
                    prediction' = [condition |-> "Analysis Error", confidence |-> 0,
                                   severity |-> "medium",
                                   description |-> FallbackPrediction.description]]_vars
    /\ [](prediction # Null => "error" \notin DOMAIN prediction)

C5_Witness ==
    /\ selectedImage = FileC
    /\ predictionFor = FileC
    /\ prediction = FallbackPrediction
    /\ ~isAnalyzing
    /\ fetches = << >>

\* C6: at most one classify request of the client is in flight at any time.
C6_SingleInFlight == Len(fetches) <= 1

C6_Witness ==
    /\ Len(fetches) = 1
    /\ isAnalyzing
    /\ imagePreview # Null
    /\ selectedImage # Null
    /\ selectedImage # fetches[1].file

\* C7: in every reachable state (selectedImage, imagePreview, isAnalyzing,
\* prediction) is empty, previewing, analyzing or result-shown.
C7_FourStates ==
    \/ selectedImage = Null /\ imagePreview = Null /\ ~isAnalyzing /\ prediction = Null
    \/ selectedImage # Null /\ imagePreview # Null /\ ~isAnalyzing /\ prediction = Null
    \/ selectedImage # Null /\ imagePreview # Null /\ isAnalyzing
    \/ selectedImage # Null /\ imagePreview # Null /\ ~isAnalyzing /\ prediction # Null

\* C8: after Clear there is no preview and no prediction until the user
\* selects or drops a new file (selectedImage is null exactly from a Clear,
\* or the start, to the next handleImageSelect).
C8_ClearedStaysEmpty ==
    (selectedImage = Null) => (imagePreview = Null /\ prediction = Null)

\* C9: a click on Analyze with an image selected sets isAnalyzing, and every
\* analysis, once its fetch settles, ends with isAnalyzing false and a
\* prediction set.
C9_AnalyzeEndsWithResult ==
    /\ [][(AnalyzeImage /\ selectedImage # Null) => isAnalyzing']_vars
    /\ (isAnalyzing ~> (~isAnalyzing /\ prediction # Null))

C9_Witness ==
    /\ ~isAnalyzing
    /\ fetches = << >>
    /\ selectedImage = FileA
    /\ imagePreview = DataURL(FileA)
    /\ prediction # Null
    /\ "condition" \in DOMAIN prediction
    /\ prediction.condition = "Melanoma"

\* C10: a prediction that is shown was produced by a request issued for the
\* file that is the current selectedImage.
C10_PredictionOfSelectedImage ==
    (prediction # Null) => (predictionFor = selectedImage)

====
